---- MODULE Spec2Model ----
(***************************************************************************)
(* CRSLab: the batching utilities of crslab/data/dataloader/               *)
(* base_dataloader.py (padded_tensor, batch_split, truncate,               *)
(* BaseDataLoader) and the metric bookkeeping of crslab/evaluator          *)
(* (ConvEvaluator, RecEvaluator).                                          *)
(*                                                                         *)
(* Python values: None is the empty tuple <<>> and a present optional      *)
(* value v is <<v>>; a list is a sequence (Python index i is TLA index     *)
(* i + 1); a call frame is a record with a pc field.                       *)
(***************************************************************************)
EXTENDS Integers, Sequences, FiniteSets, TLC

VARIABLES
    truncate_call,  \* frame of one call of truncate(vec, max_length, truncate_tail)
    padded_call,    \* frame of one call of padded_tensor(items, pad_idx, right_padded, max_len)
    dataset,        \* BaseDataLoader.dataset
    overrides,      \* the methods of BaseDataLoader the concrete loader class overrides
    it,             \* the generator object returned by get_*_data / batch_split
    split_out,      \* the batches batch_split has yielded so far
    out,            \* the values the outer generator has yielded so far
    conv,           \* the ConvEvaluator object
    rec,            \* the RecEvaluator object
    last_call       \* the evaluator method executed last: its arguments and
                    \* what it handed to the logger

vars == <<truncate_call, padded_call, dataset, overrides, it, split_out, out,
          conv, rec, last_call>>

-----------------------------------------------------------------------------
(* Bounds of the model. *)

MaxVecLen == 3
MaxItems == 2
MaxItemLen == 2
MaxData == 3
MaxBatchSize == 2

Tokens == {7, 8}
PadIdxs == {0}

-----------------------------------------------------------------------------
(* Python built-ins. *)

None == <<>>

Some(v) == <<v>>

Min2(a, b) == IF a <= b THEN a ELSE b

Max2(a, b) == IF a >= b THEN a ELSE b

\* Python's clamping of a slice bound i against a sequence of length n.
SliceBound(i, n) == IF i < 0 THEN Max2(i + n, 0) ELSE Min2(i, n)

\* seq[start:stop] with integer bounds (negative bounds count from the end).
PySlice(seq, start, stop) ==
    LET lo == SliceBound(start, Len(seq))
        hi == SliceBound(stop, Len(seq))
    IN  IF lo < hi THEN [j \in 1..(hi - lo) |-> seq[lo + j]] ELSE <<>>

\* seq[start:]
PySliceFrom(seq, start) == PySlice(seq, start, Len(seq))

\* seq[:stop]
PySliceTo(seq, stop) == PySlice(seq, 0, stop)

\* max(lens) of a non-empty list of integers
PyMax(lens) == CHOOSE m \in {lens[i] : i \in 1..Len(lens)} :
                   \A i \in 1..Len(lens) : lens[i] <= m

\* All sequences over S of length lo..hi.
SeqsOf(S, lo, hi) == UNION {[1..n -> S] : n \in lo..hi}

-----------------------------------------------------------------------------
(* truncate *)

truncate(vec, max_length, truncate_tail) ==
    IF max_length = None THEN vec
    ELSE IF Len(vec) <= max_length[1] THEN vec
    ELSE IF truncate_tail THEN PySliceTo(vec, max_length[1])
    ELSE PySliceFrom(vec, -max_length[1])

TruncateInit ==
    truncate_call \in [vec : SeqsOf(Tokens, 0, MaxVecLen),
                       max_length : {None} \cup {Some(m) : m \in 0..(MaxVecLen + 1)},
                       truncate_tail : BOOLEAN,
                       pc : {"call"},
                       ret : {None}]

TruncateIdle ==
    truncate_call = [vec |-> <<>>, max_length |-> None, truncate_tail |-> TRUE,
                     pc |-> "idle", ret |-> None]

Truncate ==
    /\ truncate_call.pc = "call"
    /\ truncate_call' = [truncate_call EXCEPT
            !.pc = "return",
            !.ret = truncate(truncate_call.vec, truncate_call.max_length,
                             truncate_call.truncate_tail)]
    /\ UNCHANGED <<padded_call, dataset, overrides, it, split_out, out,
                   conv, rec, last_call>>

-----------------------------------------------------------------------------
(* padded_tensor *)

\* output[i, lo:hi] = item : torch requires the item to have the size of the
\* target slice, or size 1 (broadcast); anything else raises RuntimeError.
SliceAssign(row, start, stop, item) ==
    LET lo == SliceBound(start, Len(row))
        hi == Max2(SliceBound(stop, Len(row)), lo)
        size == hi - lo
    IN  IF Len(item) = size
        THEN [ok |-> TRUE,
              row |-> [j \in 1..Len(row) |->
                         IF j > lo /\ j <= hi THEN item[j - lo] ELSE row[j]]]
        ELSE IF Len(item) = 1
        THEN [ok |-> TRUE,
              row |-> [j \in 1..Len(row) |->
                         IF j > lo /\ j <= hi THEN item[1] ELSE row[j]]]
        ELSE [ok |-> FALSE, row |-> row]

\* (variant: the right_padded flag ignored)
PaddedRowAtStart(item, t, pad_idx, right_padded) ==
    LET filled == [j \in 1..t |-> pad_idx]
    IN  IF Len(item) = 0 THEN [ok |-> TRUE, row |-> filled]
        ELSE SliceAssign(filled, 0, Len(item), item)

\* One iteration of the loop over the items: row i of the filled output.
PaddedRow(item, t, pad_idx, right_padded) ==
    LET filled == [j \in 1..t |-> pad_idx]
        length == Len(item)
    IN  IF length = 0 THEN [ok |-> TRUE, row |-> filled]
        ELSE IF right_padded THEN SliceAssign(filled, 0, length, item)
        ELSE SliceAssign(filled, t - length, t, item)

\* The time dimension: max(lens) or max_len, at least 1.
TimeDim(lens, max_len) ==
    Max2(IF max_len = None THEN PyMax(lens) ELSE max_len[1], 1)

\* items are Python lists; tensor items take the same path from the fill on.
\* max([]) and items[0] raise on an empty list of items.
padded_tensor(items, pad_idx, right_padded, max_len) ==
    LET n == Len(items)
        lens == [i \in 1..n |-> Len(items[i])]
    IN  IF n = 0
        THEN [raised |-> IF max_len = None THEN "ValueError" ELSE "IndexError",
              type |-> "none", rows |-> <<>>]
        ELSE LET t == TimeDim(lens, max_len)
                 rows == [i \in 1..n |-> PaddedRow(items[i], t, pad_idx, right_padded)]
             IN  IF \E i \in 1..n : ~rows[i].ok
                 THEN [raised |-> "RuntimeError", type |-> "none", rows |-> <<>>]
                 ELSE [raised |-> "none", type |-> "LongTensor",
                       rows |-> [i \in 1..n |-> rows[i].row]]

PaddedInit ==
    padded_call \in [items : SeqsOf(SeqsOf(Tokens, 0, MaxItemLen), 0, MaxItems),
                     pad_idx : PadIdxs,
                     right_padded : BOOLEAN,
                     max_len : {None} \cup {Some(m) : m \in 0..(MaxItemLen + 1)},
                     pc : {"call"},
                     ret : {None}]

PaddedIdle ==
    padded_call = [items |-> <<>>, pad_idx |-> 0, right_padded |-> TRUE,
                   max_len |-> None, pc |-> "idle", ret |-> None]

PaddedTensor ==
    /\ padded_call.pc = "call"
    /\ padded_call' = [padded_call EXCEPT
            !.pc = "return",
            !.ret = padded_tensor(padded_call.items, padded_call.pad_idx,
                                  padded_call.right_padded, padded_call.max_len)]
    /\ UNCHANGED <<truncate_call, dataset, overrides, it, split_out, out,
                   conv, rec, last_call>>

-----------------------------------------------------------------------------
(* batch_split and BaseDataLoader *)

DataItems == {1, 2}

BatchifyMethods == {"conv_batchify", "rec_batchify", "guide_batchify"}

ProcessMethods == {"conv_process_fn", "rec_process_fn", "guide_process_fn"}

\* (variant: floor instead of ceil)
BatchNumFloor(n, batch_size) == n \div batch_size

\* ceil(len(dataset) / batch_size); the float quotient is exact for the lengths
\* modelled here.
BatchNum(n, batch_size) == (n + batch_size - 1) \div batch_size

\* list(range(n))
Range(n) == [j \in 1..n |-> j - 1]

\* The orders random.shuffle can leave a list of n indices in.
Shuffles(n) ==
    {p \in [1..n -> 0..(n - 1)] : \A i, j \in 1..n : p[i] = p[j] => i = j}

\* What a concrete loader's process_fn returns: a processed copy of the dataset.
\* The base class returns self.dataset.
CallProcessFn(name, ds) ==
    IF name \in overrides THEN [j \in 1..Len(ds) |-> ds[j] + 100] ELSE ds

\* batch_fn(batch) of a loader that overrides the method.
Batchified(name, batch) == [fn |-> name, batch |-> batch]

NoGenerator ==
    [fn |-> "none", batch_fn |-> None, process_fn |-> None, batch_size |-> 1,
     shuffle |-> FALSE, pc |-> "none", data |-> <<>>, batch_num |-> 0,
     idx_list |-> <<>>, start_idx |-> 0, raised |-> "none"]

\* Calling a generator function runs none of its body.
NewGenerator(fn, batch_fn, batch_size, shuffle, process_fn) ==
    [NoGenerator EXCEPT !.fn = fn, !.batch_fn = batch_fn, !.process_fn = process_fn,
                        !.batch_size = batch_size, !.shuffle = shuffle,
                        !.pc = "created"]

\* get_data: dataset = self.dataset, or process_fn() when one is given.
GetDataSource(g) ==
    IF g.fn = "batch_split" THEN dataset
    ELSE IF g.process_fn # None THEN CallProcessFn(g.process_fn[1], dataset)
    ELSE dataset

\* The prologue of batch_split, run by the first next().
Started(g, idx) ==
    IF g.pc # "created" THEN g
    ELSE LET data == GetDataSource(g)
         IN  [g EXCEPT !.pc = "suspended", !.data = data,
                       !.batch_num = BatchNum(Len(data), g.batch_size),
                       !.idx_list = idx, !.start_idx = 0]

\* The index orders the first next() can draw; later calls keep idx_list.
IdxChoices(g) ==
    IF g.pc # "created" THEN {g.idx_list}
    ELSE LET n == Len(GetDataSource(g))
         IN  IF g.shuffle THEN Shuffles(n) ELSE {Range(n)}

\* batch_idx = idx_list[start_idx * batch_size: (start_idx + 1) * batch_size]
BatchIdx(g) ==
    PySlice(g.idx_list, g.start_idx * g.batch_size, (g.start_idx + 1) * g.batch_size)

\* [dataset[idx] for idx in batch_idx]
BatchOf(g) ==
    LET batch_idx == BatchIdx(g)
    IN  [j \in 1..Len(batch_idx) |-> g.data[batch_idx[j] + 1]]

LoaderInit ==
    /\ dataset \in SeqsOf(DataItems, 0, MaxData)
    /\ overrides \in {b \cup p : b \in SUBSET BatchifyMethods, p \in {{}, ProcessMethods}}
    /\ it = NoGenerator
    /\ split_out = <<>>
    /\ out = <<>>

LoaderIdle ==
    /\ dataset = <<>>
    /\ overrides = {}
    /\ it = NoGenerator
    /\ split_out = <<>>
    /\ out = <<>>

LoaderRest == <<truncate_call, padded_call, dataset, overrides, split_out, out,
                conv, rec, last_call>>

\* batch_split(self.dataset, batch_size, shuffle), as a loader's own code calls it
batch_split ==
    /\ it.pc = "none"
    /\ \E batch_size \in 1..MaxBatchSize, shuffle \in BOOLEAN :
         it' = NewGenerator("batch_split", None, batch_size, shuffle, None)
    /\ UNCHANGED LoaderRest

\* get_data(batch_fn, batch_size, shuffle) with process_fn left at None
get_data ==
    /\ it.pc = "none"
    /\ \E batch_fn \in BatchifyMethods, batch_size \in 1..MaxBatchSize,
          shuffle \in BOOLEAN :
         it' = NewGenerator("get_data", Some(batch_fn), batch_size, shuffle, None)
    /\ UNCHANGED LoaderRest

get_conv_data ==
    /\ it.pc = "none"
    /\ \E batch_size \in 1..MaxBatchSize, shuffle \in BOOLEAN :
         it' = NewGenerator("get_conv_data", Some("conv_batchify"), batch_size,
                            shuffle, Some("conv_process_fn"))
    /\ UNCHANGED LoaderRest

get_rec_data ==
    /\ it.pc = "none"
    /\ \E batch_size \in 1..MaxBatchSize, shuffle \in BOOLEAN :
         it' = NewGenerator("get_rec_data", Some("rec_batchify"), batch_size,
                            shuffle, Some("rec_process_fn"))
    /\ UNCHANGED LoaderRest

get_guide_data ==
    /\ it.pc = "none"
    /\ \E batch_size \in 1..MaxBatchSize, shuffle \in BOOLEAN :
         it' = NewGenerator("get_guide_data", Some("guide_batchify"), batch_size,
                            shuffle, Some("guide_process_fn"))
    /\ UNCHANGED LoaderRest

\* next(it): run the generator to its next yield, to its end, or to an exception.
GeneratorNext ==
    /\ it.pc \in {"created", "suspended"}
    /\ \E idx \in IdxChoices(it) :
         LET g == Started(it, idx)
         IN  IF g.start_idx >= g.batch_num
             THEN /\ it' = [g EXCEPT !.pc = "done"]
                  /\ UNCHANGED <<split_out, out>>
             ELSE LET batch == BatchOf(g)
                  IN  /\ split_out' = Append(split_out, batch)
                      /\ IF g.fn = "batch_split"
                         THEN /\ out' = Append(out, batch)
                              /\ it' = [g EXCEPT !.start_idx = @ + 1]
                         ELSE IF g.batch_fn[1] \in overrides
                         THEN /\ out' = Append(out, Batchified(g.batch_fn[1], batch))
                              /\ it' = [g EXCEPT !.start_idx = @ + 1]
                         ELSE /\ out' = out
                              /\ it' = [g EXCEPT !.pc = "raised",
                                                 !.raised = "NotImplementedError"]
    /\ UNCHANGED <<truncate_call, padded_call, dataset, overrides,
                   conv, rec, last_call>>

-----------------------------------------------------------------------------
(* The Metrics accumulator of crslab.evaluator.metrics: per key, the values  *)
(* added; a report gives the mean of the values added under each key.       *)
(* A value computed by a metric of that library is the term naming the      *)
(* metric and its arguments; a dist value is the exact fraction <<n, d>>.   *)

MetricsEmpty == <<>>

MetricsAdd(m, key, value) ==
    [x \in (DOMAIN m) \cup {key} |->
        IF x = key
        THEN IF key \in DOMAIN m THEN Append(m[key], value) ELSE <<value>>
        ELSE m[x]]

MetricsClear(m) == MetricsEmpty

FracAdd(a, b) == <<a[1] * b[2] + b[1] * a[2], a[2] * b[2]>>

FracEq(a, b) == a[1] * b[2] = b[1] * a[2]

RECURSIVE FracSum(_)
FracSum(values) ==
    IF Len(values) = 0 THEN <<0, 1>>
    ELSE FracAdd(values[1], FracSum(Tail(values)))

\* The mean of the AverageMetric values added under one key.
FracMean(values) ==
    LET total == FracSum(values) IN <<total[1], total[2] * Len(values)>>

DistKeys == <<"dist@1", "dist@2", "dist@3", "dist@4">>

BleuKeys == <<"bleu@1", "bleu@2", "bleu@3", "bleu@4">>

DistKeySet == {DistKeys[k] : k \in 1..Len(DistKeys)}

MetricsReport(m) ==
    [key \in DOMAIN m |->
        IF key \in DistKeySet THEN FracMean(m[key]) ELSE [mean_of |-> m[key]]]

Computed(metric, a, b, k) == [fn |-> metric, a |-> a, b |-> b, k |-> k]

-----------------------------------------------------------------------------
(* Bounds and inputs of the evaluators. *)

MaxEvals == 2
MaxReports == 2

Hyps == {<<>>, <<"a">>, <<"a", "a">>, <<"a", "b", "a">>}

RefLists == {<< <<"a", "b">> >>}

RankLens == {0, 1, 9, 10, 49, 50}

Labels == {1}

\* The values added and not yet cleared, over both evaluators.
Load ==
    LET n(m, key) == IF key \in DOMAIN m THEN Len(m[key]) ELSE 0
    IN  n(conv.gen_metrics, "f1") + n(conv.optim_metrics, "loss")
        + n(rec.rec_metrics, "hit@1") + n(rec.optim_metrics, "loss")

Reports ==
    IF conv.dist_set = <<>> THEN 0
    ELSE LET key == CHOOSE x \in DOMAIN conv.dist_set : TRUE
         IN  IF key \in DOMAIN conv.gen_metrics THEN Len(conv.gen_metrics[key]) ELSE 0

-----------------------------------------------------------------------------
(* ConvEvaluator *)

\* nltk.ngrams(hyp, k): the windows of k consecutive elements of hyp.
NGrams(hyp, k) == {SubSeq(hyp, i, i + k - 1) : i \in 1..(Len(hyp) - k + 1)}

ConvNew ==
    [dist_set |-> <<>>, dist_cnt |-> 0, gen_metrics |-> MetricsEmpty,
     optim_metrics |-> MetricsEmpty, ft |-> "unset", raised |-> "none"]

\* for k in range(1, 5): gen_metrics.add(f"bleu@{k}", ...)
RECURSIVE AddBleu(_, _, _, _)
AddBleu(m, hyp, refs, k) ==
    IF k > Len(BleuKeys) THEN m
    ELSE AddBleu(MetricsAdd(m, BleuKeys[k], Computed("BleuMetric", hyp, refs, k)),
                 hyp, refs, k + 1)

\* for token in ngrams(hyp, k): dist_set[f"dist@{k}"].add(token), k = 1..4;
\* the defaultdict makes a key when its first token is added.
AddDist(dist_set, hyp) ==
    LET new == {DistKeys[k] : k \in {j \in 1..Len(DistKeys) : NGrams(hyp, j) # {}}}
        kOf(key) == CHOOSE k \in 1..Len(DistKeys) : DistKeys[k] = key
    IN  [key \in (DOMAIN dist_set) \cup new |->
            (IF key \in DOMAIN dist_set THEN dist_set[key] ELSE {})
            \cup NGrams(hyp, kOf(key))]

gen_evaluate(e, hyp, refs) ==
    IF Len(hyp) = 0 THEN [e EXCEPT !.raised = "none"]
    ELSE LET m1 == AddBleu(MetricsAdd(e.gen_metrics, "f1",
                                      Computed("F1Metric", hyp, refs, 0)),
                           hyp, refs, 1)
             counted == [e EXCEPT !.gen_metrics = m1,
                                  !.dist_set = AddDist(e.dist_set, hyp),
                                  !.dist_cnt = @ + 1,
                                  !.raised = "none"]
         IN  IF e.ft = "unset"
             \* _get_sent_embedding reads self.ft, which only _load_embedding sets
             THEN [counted EXCEPT !.raised = "AttributeError"]
             ELSE [counted EXCEPT !.gen_metrics =
                     MetricsAdd(MetricsAdd(MetricsAdd(m1,
                         "greedy", Computed("GreedyMatch", hyp, refs, 0)),
                         "average", Computed("EmbeddingAverage", hyp, refs, 0)),
                         "extreme", Computed("VectorExtrema", hyp, refs, 0))]

\* for k, v in dist_set.items(): gen_metrics.add(k, AverageMetric(len(v) / dist_cnt))
RECURSIVE AddDistValues(_, _, _, _)
AddDistValues(m, dist_set, dist_cnt, keys) ==
    IF keys = {} THEN m
    ELSE LET key == CHOOSE x \in keys : TRUE
         IN  AddDistValues(
                 MetricsAdd(m, key, <<Cardinality(dist_set[key]), dist_cnt>>),
                 dist_set, dist_cnt, keys \ {key})

conv_report(e) ==
    IF e.dist_set # <<>> /\ e.dist_cnt = 0
    THEN [e EXCEPT !.raised = "ZeroDivisionError"]
    ELSE [e EXCEPT !.gen_metrics =
                      AddDistValues(e.gen_metrics, e.dist_set, e.dist_cnt,
                                    DOMAIN e.dist_set),
                   !.raised = "none"]

\* (variant: dist_set kept)
conv_reset_metrics_keep_dist(e) ==
    [e EXCEPT !.gen_metrics = MetricsClear(@), !.dist_cnt = 0,
              !.optim_metrics = MetricsClear(@), !.raised = "none"]

conv_reset_metrics(e) ==
    [e EXCEPT !.gen_metrics = MetricsClear(@), !.dist_cnt = 0,
              !.dist_set = <<>>, !.optim_metrics = MetricsClear(@),
              !.raised = "none"]

-----------------------------------------------------------------------------
(* RecEvaluator *)

RecKs == <<1, 10, 50>>

HitKeys == <<"hit@1", "hit@10", "hit@50">>

NdcgKeys == <<"ndcg@1", "ndcg@10", "ndcg@50">>

MrrKeys == <<"mrr@1", "mrr@10", "mrr@50">>

RecNew == [rec_metrics |-> MetricsEmpty, optim_metrics |-> MetricsEmpty]

\* (variant: len(ranks) > k)
RecAddsStrict(ranks, k) == Len(ranks) > k

\* if len(ranks) >= k
RecAdds(ranks, k) == Len(ranks) >= k

RECURSIVE AddRec(_, _, _, _)
AddRec(m, ranks, label, i) ==
    IF i > Len(RecKs) THEN m
    ELSE IF RecAdds(ranks, RecKs[i])
    THEN AddRec(
            MetricsAdd(MetricsAdd(MetricsAdd(m,
                HitKeys[i], Computed("HitMetric", ranks, label, RecKs[i])),
                NdcgKeys[i], Computed("NDCGMetric", ranks, label, RecKs[i])),
                MrrKeys[i], Computed("MRRMetric", ranks, label, RecKs[i])),
            ranks, label, i + 1)
    ELSE AddRec(m, ranks, label, i + 1)

rec_evaluate(e, ranks, label) ==
    [e EXCEPT !.rec_metrics = AddRec(@, ranks, label, 1)]

rec_reset_metrics(e) ==
    [e EXCEPT !.rec_metrics = MetricsClear(@), !.optim_metrics = MetricsClear(@)]

-----------------------------------------------------------------------------
(* The evaluators' operations as steps. *)

NoLog == <<>>

Call(obj, op, a, b, logged) ==
    [obj |-> obj, op |-> op, a |-> a, b |-> b, log |-> logged]

NoCall == Call("none", "init", <<>>, <<>>, NoLog)

EvalInit ==
    /\ conv = ConvNew
    /\ rec = RecNew
    /\ last_call = NoCall

EvalFrame == UNCHANGED <<truncate_call, padded_call, dataset, overrides, it,
                         split_out, out>>

LoadEmbedding ==
    /\ conv.ft = "unset"
    /\ conv' = [conv EXCEPT !.ft = "loaded", !.raised = "none"]
    /\ last_call' = Call("conv", "_load_embedding", <<>>, <<>>, NoLog)
    /\ UNCHANGED rec
    /\ EvalFrame

GenEvaluate ==
    /\ Load < MaxEvals
    /\ \E hyp \in Hyps, refs \in RefLists :
         /\ conv' = gen_evaluate(conv, hyp, refs)
         /\ last_call' = Call("conv", "gen_evaluate", hyp, refs, NoLog)
    /\ UNCHANGED rec
    /\ EvalFrame

ConvOptimAdd ==
    /\ Load < MaxEvals
    /\ conv' = [conv EXCEPT !.optim_metrics =
                   MetricsAdd(@, "loss", Computed("AverageMetric", <<>>, <<>>, 0)),
                            !.raised = "none"]
    /\ last_call' = Call("conv", "optim_metrics.add", <<>>, <<>>, NoLog)
    /\ UNCHANGED rec
    /\ EvalFrame

ConvReport ==
    /\ Reports < MaxReports
    /\ conv' = conv_report(conv)
    /\ last_call' = Call("conv", "report", <<>>, <<>>,
                         IF conv'.raised = "none"
                         THEN [gen |-> MetricsReport(conv'.gen_metrics),
                               optim |-> MetricsReport(conv'.optim_metrics)]
                         ELSE NoLog)
    /\ UNCHANGED rec
    /\ EvalFrame

ConvResetMetrics ==
    /\ conv' = conv_reset_metrics(conv)
    /\ last_call' = Call("conv", "reset_metrics", <<>>, <<>>, NoLog)
    /\ UNCHANGED rec
    /\ EvalFrame

RecEvaluate ==
    /\ Load < MaxEvals
    /\ \E n \in RankLens, label \in Labels :
         LET ranks == [j \in 1..n |-> j]
         IN  /\ rec' = rec_evaluate(rec, ranks, label)
             /\ last_call' = Call("rec", "rec_evaluate", ranks, <<label>>, NoLog)
    /\ UNCHANGED conv
    /\ EvalFrame

RecOptimAdd ==
    /\ Load < MaxEvals
    /\ rec' = [rec EXCEPT !.optim_metrics =
                  MetricsAdd(@, "loss", Computed("AverageMetric", <<>>, <<>>, 0))]
    /\ last_call' = Call("rec", "optim_metrics.add", <<>>, <<>>, NoLog)
    /\ UNCHANGED conv
    /\ EvalFrame

RecReport ==
    /\ last_call' = Call("rec", "report", <<>>, <<>>,
                         [gen |-> MetricsReport(rec.rec_metrics),
                          optim |-> MetricsReport(rec.optim_metrics)])
    /\ UNCHANGED <<conv, rec>>
    /\ EvalFrame

RecResetMetrics ==
    /\ rec' = rec_reset_metrics(rec)
    /\ last_call' = Call("rec", "reset_metrics", <<>>, <<>>, NoLog)
    /\ UNCHANGED conv
    /\ EvalFrame

-----------------------------------------------------------------------------
(* Specifications. *)

\* The pure function truncate on every bounded input.
TruncateSpecInit == TruncateInit /\ PaddedIdle /\ LoaderIdle /\ EvalInit

TruncateNext == Truncate

SpecTruncate == TruncateSpecInit /\ [][TruncateNext]_vars

\* The pure function padded_tensor on every bounded input.
PaddedSpecInit == TruncateIdle /\ PaddedInit /\ LoaderIdle /\ EvalInit

PaddedNext == PaddedTensor

SpecPadded == PaddedSpecInit /\ [][PaddedNext]_vars

\* One iteration over a loader's data.
LoaderSpecInit == TruncateIdle /\ PaddedIdle /\ LoaderInit /\ EvalInit

LoaderNext ==
    \/ batch_split
    \/ get_data
    \/ get_conv_data
    \/ get_rec_data
    \/ get_guide_data
    \/ GeneratorNext

SpecLoader == LoaderSpecInit /\ [][LoaderNext]_vars

\* The evaluators under any order of their calls.
EvalSpecInit == TruncateIdle /\ PaddedIdle /\ LoaderIdle /\ EvalInit

EvalNext ==
    \/ LoadEmbedding
    \/ GenEvaluate
    \/ ConvOptimAdd
    \/ ConvReport
    \/ ConvResetMetrics
    \/ RecEvaluate
    \/ RecOptimAdd
    \/ RecReport
    \/ RecResetMetrics

SpecEval == EvalSpecInit /\ [][EvalNext]_vars

Init == EvalSpecInit

Next == EvalNext

Spec == SpecEval

-----------------------------------------------------------------------------
(* Properties. *)

RECURSIVE Flatten(_)
Flatten(seqs) == IF Len(seqs) = 0 THEN <<>> ELSE seqs[1] \o Flatten(Tail(seqs))

\* The least c with c * b >= n.
CeilOf(n, b) == CHOOSE c \in 0..n : c * b >= n /\ (c = 0 \/ (c - 1) * b < n)

GeneratorStarted == it.pc \in {"suspended", "done", "raised"}

\* C1: batch_split over a dataset of length n with batch_size >= 1 yields
\* ceil(n / batch_size) batches; each holds at most batch_size elements, each but
\* the last exactly batch_size, none is empty; every dataset index is in exactly
\* one batch exactly once; without shuffle the batches concatenate to the dataset.
C1_BatchSplitPartitions ==
    GeneratorStarted =>
        LET n == Len(it.data)
            bs == it.batch_size
            c == CeilOf(n, bs)
            flat == Flatten(split_out)
        IN  /\ Len(split_out) <= c
            /\ it.pc = "done" => Len(split_out) = c
            /\ \A j \in 1..Len(split_out) :
                 /\ Len(split_out[j]) >= 1
                 /\ Len(split_out[j]) <= bs
                 /\ j < c => Len(split_out[j]) = bs
            /\ Len(it.idx_list) = n
            /\ \A i \in 0..(n - 1) :
                 Cardinality({j \in 1..n : it.idx_list[j] = i}) = 1
            /\ Len(flat) <= n
            /\ \A j \in 1..Len(flat) : flat[j] = it.data[it.idx_list[j] + 1]
            /\ it.pc = "done" => Len(flat) = n
            /\ (it.pc = "done" /\ ~it.shuffle) => flat = it.data

\* A shuffled split of three elements into batches of two, run to its end.
C1_Witness ==
    /\ it.fn = "batch_split"
    /\ it.pc = "done"
    /\ it.shuffle
    /\ Len(it.data) = 3
    /\ it.batch_size = 2
    /\ it.idx_list = <<2, 0, 1>>
    /\ Len(split_out) = 2

PaddedReturned == padded_call.pc = "return"

\* C2: for a non-empty list of n items of any lengths (longer than max_len
\* included) and an explicit max_len >= 1, padded_tensor returns an n x max_len
\* matrix and raises nothing.
C2_FixedSizeForAnyLengths ==
    (/\ PaddedReturned
     /\ Len(padded_call.items) >= 1
     /\ padded_call.max_len # None
     /\ padded_call.max_len[1] >= 1)
    => /\ padded_call.ret.raised = "none"
       /\ Len(padded_call.ret.rows) = Len(padded_call.items)
       /\ \A i \in 1..Len(padded_call.ret.rows) :
            Len(padded_call.ret.rows[i]) = padded_call.max_len[1]

C4_ReturnsPaddedAndLengths ==
    (PaddedReturned /\ padded_call.ret.raised = "none")
    => /\ padded_call.ret.type = "tuple"
       /\ Len(padded_call.ret.items) = 2
       /\ padded_call.ret.items[2] =
            [i \in 1..Len(padded_call.items) |-> Len(padded_call.items[i])]

\* C5: for max_length >= 0 the result of truncate has length
\* min(len(vec), max_length), the first max_length elements with truncate_tail
\* and the last max_length elements without; with max_length None or
\* len(vec) <= max_length the result is vec.
C5_TruncatesCorrectly ==
    truncate_call.pc = "return"
    => LET vec == truncate_call.vec
           ret == truncate_call.ret
       IN  IF truncate_call.max_length = None THEN ret = vec
           ELSE LET m == truncate_call.max_length[1]
                IN  /\ Len(ret) = Min2(Len(vec), m)
                    /\ Len(vec) <= m => ret = vec
                    /\ Len(vec) > m =>
                         IF truncate_call.truncate_tail
                         THEN ret = SubSeq(vec, 1, m)
                         ELSE ret = SubSeq(vec, Len(vec) - m + 1, Len(vec))

ConvReported ==
    /\ last_call.obj = "conv"
    /\ last_call.op = "report"
    /\ last_call.log # NoLog

\* C6: every report() of ConvEvaluator, a report that follows an earlier report
\* with further gen_evaluate calls and no reset included, gives for each k a
\* dist@k equal to the number of distinct k-grams of the non-empty hyps
\* evaluated since the last reset divided by the number of those hyps.
C6_ReportGivesCurrentDist ==
    (ConvReported /\ conv.ft = "loaded")
    => \A key \in DistKeySet \cap DOMAIN last_call.log.gen :
           FracEq(last_call.log.gen[key],
                  <<Cardinality(conv.dist_set[key]), conv.dist_cnt>>)

Emptied(m) == DOMAIN m = {}

\* C7: reset_metrics restores the freshly constructed state: ConvEvaluator is
\* left with dist_cnt = 0, dist_set without keys and empty gen_metrics and
\* optim_metrics; RecEvaluator with empty rec_metrics and optim_metrics.
C7_ResetRestoresFreshState ==
    /\ (last_call.obj = "conv" /\ last_call.op = "reset_metrics")
       => /\ conv.dist_cnt = 0
          /\ DOMAIN conv.dist_set = {}
          /\ Emptied(conv.gen_metrics)
          /\ Emptied(conv.optim_metrics)
          /\ [conv EXCEPT !.ft = "unset"] = ConvNew
    /\ (last_call.obj = "rec" /\ last_call.op = "reset_metrics")
       => /\ Emptied(rec.rec_metrics)
          /\ Emptied(rec.optim_metrics)
          /\ rec = RecNew

\* A reset of either evaluator with the embedding loaded.
C7_Witness ==
    /\ last_call.op = "reset_metrics"
    /\ last_call.obj = "conv"
    /\ conv.ft = "loaded"
    /\ Emptied(conv.gen_metrics)
    /\ ~Emptied(rec.rec_metrics)

Added(m, key) == IF key \in DOMAIN m THEN Len(m[key]) ELSE 0

RecCountsAgree ==
    /\ \A i \in 1..Len(RecKs) :
         /\ Added(rec.rec_metrics, HitKeys[i]) = Added(rec.rec_metrics, NdcgKeys[i])
         /\ Added(rec.rec_metrics, HitKeys[i]) = Added(rec.rec_metrics, MrrKeys[i])
    /\ Added(rec.rec_metrics, "hit@1") >= Added(rec.rec_metrics, "hit@10")
    /\ Added(rec.rec_metrics, "hit@10") >= Added(rec.rec_metrics, "hit@50")

RecAddsExactlyWhenLongEnough ==
    (last_call'.obj = "rec" /\ last_call'.op = "rec_evaluate")
    => \A i \in 1..Len(RecKs) :
         \A key \in {HitKeys[i], NdcgKeys[i], MrrKeys[i]} :
            Added(rec'.rec_metrics, key) =
                Added(rec.rec_metrics, key)
                + (IF Len(last_call'.a) >= RecKs[i] THEN 1 ELSE 0)

\* C8: rec_evaluate(ranks, label) adds hit@k, ndcg@k and mrr@k for k in
\* {1, 10, 50} exactly when len(ranks) >= k; so the three metrics of one k have
\* always been added equally often, and count@1 >= count@10 >= count@50.
C8_RecAddsPerK ==
    /\ []RecCountsAgree
    /\ [][RecAddsExactlyWhenLongEnough]_vars

\* Ten ranks after an earlier call: k = 1 added twice, k = 10 once, k = 50 never.
C8_Witness ==
    /\ last_call.obj = "rec"
    /\ last_call.op = "rec_evaluate"
    /\ Len(last_call.a) = 10
    /\ Added(rec.rec_metrics, "hit@1") = 2
    /\ Added(rec.rec_metrics, "mrr@10") = 1
    /\ Added(rec.rec_metrics, "ndcg@50") = 0

\* C9: fully iterating get_conv_data, get_rec_data or get_guide_data of a loader
\* that does not override the batchify method ends in NotImplementedError, for
\* every dataset (an empty one included); with the method overridden the loader
\* yields batch_fn(batch) for each batch of batch_split, in order, over the
\* result of process_fn when given and over self.dataset otherwise.
C9_MustImplementBatchify ==
    (it.pc \in {"done", "raised"} /\ it.fn # "batch_split")
    => IF it.batch_fn[1] \in overrides
       THEN /\ it.pc = "done"
            /\ out = [j \in 1..Len(split_out) |->
                        Batchified(it.batch_fn[1], split_out[j])]
            /\ it.data = (IF it.process_fn = None THEN dataset
                          ELSE CallProcessFn(it.process_fn[1], dataset))
       ELSE it.fn \in {"get_conv_data", "get_rec_data", "get_guide_data"}
            => it.pc = "raised" /\ it.raised = "NotImplementedError"

====
